---- MODULE Spec2Model ----
(***************************************************************************)
(* A model of src/index.js, the stdio <-> HTTP JSON-RPC bridge.            *)
(*                                                                         *)
(* JavaScript values are tagged records: [t |-> <type>, v |-> <payload>].  *)
(* Strings are TLA+ strings (TLC supports Len, \o and SubSeq on them), so  *)
(* the character-level code (trim, the tool-name regexp) is modelled on    *)
(* the characters themselves.  Objects are functions from keys to values;  *)
(* a key that is absent from the function is an absent property.           *)
(***************************************************************************)
EXTENDS Integers, Sequences, FiniteSets, TLC

(***************************************************************************)
(* JavaScript values                                                       *)
(***************************************************************************)
Undefined == [t |-> "undefined"]
Null == [t |-> "null"]
NaN == [t |-> "nan"]
Bool(b) == [t |-> "bool", v |-> b]
Num(n) == [t |-> "num", v |-> n]
Str(s) == [t |-> "str", v |-> s]
Arr(s) == [t |-> "arr", v |-> s]
Obj(f) == [t |-> "obj", v |-> f]
EmptyObj == Obj(<<>>)

\* typeof x === 'object' for a value that is not null (arrays included).
IsObjectType(x) == x.t \in {"obj", "arr"}

\* typeof x === 'string'
IsString(x) == x.t = "str"

\* Array.isArray(x)
IsArray(x) == x.t = "arr"

\* The truthiness of a value, as !x, x && y, x || y and if (x) use it.
Truthy(x) ==
  CASE x.t \in {"undefined", "null", "nan"} -> FALSE
    [] x.t = "bool" -> x.v
    [] x.t = "num" -> x.v # 0
    [] x.t = "str" -> x.v # ""
    [] OTHER -> TRUE

\* x === undefined || x === null, the test of the ?? operator.
Nullish(x) == x.t \in {"undefined", "null"}

\* a ?? b
Coalesce(a, b) == IF Nullish(a) THEN b ELSE a

\* a || b
OrElse(a, b) == IF Truthy(a) THEN a ELSE b

\* 'k' in x, for an x that passed the typeof x === 'object' test.
Has(x, k) == x.t = "obj" /\ k \in DOMAIN x.v

\* x.k for a value other than null and undefined (on those it throws; the
\* callers test for that first). A primitive or an array has none of the
\* properties the bridge reads.
Get(x, k) == IF Has(x, k) THEN x.v[k] ELSE Undefined

(***************************************************************************)
(* Evaluation order.  JavaScript evaluates an argument once, before the    *)
(* call.  Bind(v, F) is F(v) with v evaluated once, as a const does.       *)
(***************************************************************************)
Bind(v, F(_)) == CHOOSE y \in {F(x) : x \in {v}} : TRUE

(***************************************************************************)
(* Strings                                                                 *)
(***************************************************************************)
CharAt(s, i) == SubSeq(s, i, i)

Whitespace == {" ", "\t", "\n", "\r", "\f"}

\* The least index in from..to at which P holds, none when there is no such.
FirstWhere(from, to, P(_), none) ==
  IF \E k \in from..to : P(k)
  THEN CHOOSE k \in from..to : P(k) /\ \A m \in from..(k - 1) : ~P(m)
  ELSE none

\* The greatest index in from..to at which P holds, none when there is no such.
LastWhere(from, to, P(_), none) ==
  IF \E k \in from..to : P(k)
  THEN CHOOSE k \in from..to : P(k) /\ \A m \in (k + 1)..to : ~P(m)
  ELSE none

\* The first index >= i of s that holds no white space (Len(s) + 1: none).
SkipSpace(s, i) ==
  FirstWhere(i, Len(s), LAMBDA k : CharAt(s, k) \notin Whitespace, Len(s) + 1)

\* The last index <= j of s that holds no white space (0: none).
SkipSpaceBack(s, j) ==
  LastWhere(1, j, LAMBDA k : CharAt(s, k) \notin Whitespace, 0)

\* String.prototype.trim
Trim(s) ==
  Bind(SkipSpace(s, 1), LAMBDA a :
    IF a > Len(s) THEN "" ELSE SubSeq(s, a, SkipSpaceBack(s, Len(s))))

DigitChar(d) == CharAt("0123456789", d + 1)

RECURSIVE NatToString(_)
NatToString(n) ==
  IF n < 10 THEN DigitChar(n) ELSE NatToString(n \div 10) \o DigitChar(n % 10)

IntToString(n) == IF n < 0 THEN "-" \o NatToString(0 - n) ELSE NatToString(n)

\* parts[k..].join(sep)
RECURSIVE JoinFrom(_, _, _)
JoinFrom(parts, sep, k) ==
  IF k > Len(parts) THEN ""
  ELSE IF k = Len(parts) THEN parts[k]
  ELSE parts[k] \o sep \o JoinFrom(parts, sep, k + 1)

\* String(x)
RECURSIVE StringOf(_)
StringOf(x) ==
  CASE x.t = "str" -> x.v
    [] x.t = "num" -> IntToString(x.v)
    [] x.t = "nan" -> "NaN"
    [] x.t = "bool" -> IF x.v THEN "true" ELSE "false"
    [] x.t = "null" -> "null"
    [] x.t = "undefined" -> "undefined"
    [] x.t = "arr" ->
         Bind([i \in 1..Len(x.v) |->
                 IF Nullish(x.v[i]) THEN "" ELSE StringOf(x.v[i])],
              LAMBDA parts : JoinFrom(parts, ",", 1))
    [] OTHER -> "[object Object]"

\* The keys of a string domain as an object's property map; the empty map is
\* written <<>> so that every empty object is the same value.
PropMap(keys, f(_)) == IF keys = {} THEN <<>> ELSE [k \in keys |-> f(k)]

\* The own enumerable properties that { ...x } copies: an object's keys, an
\* array's indices.
Spread(x) ==
  CASE x.t = "obj" -> x.v
    [] x.t = "arr" ->
         LET idx == {IntToString(i - 1) : i \in 1..Len(x.v)}
             at(k) == x.v[CHOOSE i \in 1..Len(x.v) : IntToString(i - 1) = k]
         IN PropMap(idx, at)
    [] OTHER -> <<>>

\* { ...x, k: val }
With(x, k, val) ==
  Bind(Spread(x), LAMBDA sp :
    Obj([j \in (DOMAIN sp) \cup {k} |-> IF j = k THEN val ELSE sp[j]]))

Digits == {DigitChar(d) : d \in 0..9}

\* The number written by the digits s[from..to].
RECURSIVE DigitsValue(_, _, _)
DigitsValue(s, from, to) ==
  IF to < from THEN 0
  ELSE 10 * DigitsValue(s, from, to - 1)
       + (CHOOSE d \in 0..9 : DigitChar(d) = CharAt(s, to))

AllDigits(s, from) == from <= Len(s) /\ \A i \in from..Len(s) : CharAt(s, i) \in Digits

\* The numeric value of a string, for the strings of the model: blank is 0, an
\* optionally signed run of decimal digits is that integer, anything else NaN.
StringToNumber(s) ==
  Bind(Trim(s), LAMBDA u :
    Bind(IF u # "" /\ CharAt(u, 1) \in {"-", "+"} THEN 2 ELSE 1, LAMBDA from :
      IF u = "" THEN Num(0)
      ELSE IF ~AllDigits(u, from) THEN NaN
      ELSE IF CharAt(u, 1) = "-" THEN Num(0 - DigitsValue(u, from, Len(u)))
      ELSE Num(DigitsValue(u, from, Len(u)))))

\* Number(x)
ToNumber(x) ==
  CASE x.t \in {"num", "nan"} -> x
    [] x.t = "bool" -> Num(IF x.v THEN 1 ELSE 0)
    [] x.t = "null" -> Num(0)
    [] x.t = "undefined" -> NaN
    [] OTHER -> StringToNumber(StringOf(x))

\* What a reader of the line gets back from JSON.stringify(x): a property whose
\* value is undefined is left out, NaN is written null, an undefined array
\* element is written null.
RECURSIVE Stringify(_)
Stringify(x) ==
  CASE x.t = "nan" -> Null
    [] x.t = "arr" ->
         Arr([i \in 1..Len(x.v) |->
                IF x.v[i].t = "undefined" THEN Null ELSE Stringify(x.v[i])])
    [] x.t = "obj" ->
         LET keep == {k \in DOMAIN x.v : x.v[k].t # "undefined"}
             at(k) == Stringify(x.v[k])
         IN Obj(PropMap(keep, at))
    [] OTHER -> x

(***************************************************************************)
(* Tool-name sanitizer (lines 20-35)                                       *)
(***************************************************************************)
MaxToolNameLen == 64

NameAlphabet ==
  "abcdefghijklmnopqrstuvwxyzABCDEFGHIJKLMNOPQRSTUVWXYZ0123456789_-"

NameChars == {CharAt(NameAlphabet, i) : i \in 1..Len(NameAlphabet)}

\* .replace(/[^a-zA-Z0-9_-]/g, '_'), of s[i..]
RECURSIVE ReplaceUnsafe(_, _)
ReplaceUnsafe(s, i) ==
  IF i > Len(s) THEN ""
  ELSE Bind(FirstWhere(i, Len(s), LAMBDA k : CharAt(s, k) \notin NameChars, 0),
            LAMBDA bad :
              IF bad = 0 THEN SubSeq(s, i, Len(s))
              ELSE SubSeq(s, i, bad - 1) \o "_" \o ReplaceUnsafe(s, bad + 1))

\* .slice(0, n)
SliceTo(s, n) == IF Len(s) <= n THEN s ELSE SubSeq(s, 1, n)

sanitizeToolName(name, fallbackBase) ==
  Bind(StringOf(Coalesce(name, Str(""))), LAMBDA text :
    Bind(SliceTo(ReplaceUnsafe(text, 1), MaxToolNameLen), LAMBDA cleaned :
      IF cleaned # "" THEN cleaned ELSE fallbackBase))

\* A variant of line 31 whose fallback name is not a safe name itself.
ToolFallbackUnsafe(i) == "tool #" \o IntToString(i)

\* `tool_${i+1}` for the 0-based map index i, given here 1-based.
ToolFallback(i) == "tool_" \o IntToString(i)

repairTool(t, i) ==
  IF ~Truthy(t) \/ ~IsObjectType(t) THEN t
  ELSE LET name == sanitizeToolName(Coalesce(Get(t, "name"), Str(ToolFallback(i))),
                                    ToolFallback(i))
       IN With(t, "name", Str(name))

repairToolsInInitializeResult(result) ==
  IF ~Truthy(result) \/ ~IsArray(Get(result, "tools")) THEN result
  ELSE LET old == Get(result, "tools").v
           tools == Arr([i \in 1..Len(old) |-> repairTool(old[i], i)])
       IN With(result, "tools", tools)

(***************************************************************************)
(* Frames (lines 38-69)                                                    *)
(***************************************************************************)
InternalError == -32603
InvalidRequest == -32600
ParseError == -32700
RemoteError == -32000
NetworkError == -32098

\* makeError(id, code, message, data); data is Undefined when not passed.
makeError(id, code, message, data) ==
  LET err == IF data # Undefined
             THEN Obj([code |-> Num(code), message |-> Str(message), data |-> data])
             ELSE Obj([code |-> Num(code), message |-> Str(message)])
  IN Obj([jsonrpc |-> Str("2.0"), id |-> Coalesce(id, Null), error |-> err])

\* The line sendResponse(obj) writes, as the value a reader decodes from it.
sendResponse(obj) ==
  Bind(IF Truthy(obj) /\ IsObjectType(obj) THEN obj ELSE EmptyObj, LAMBDA src :
    LET copied == {k \in {"id", "result", "error"} : Has(src, k)}
        lacking == ~("result" \in copied) /\ ~("error" \in copied)
        keys == {"jsonrpc", "id"} \cup copied \cup (IF lacking THEN {"error"} ELSE {})
        at(k) ==
          CASE k = "jsonrpc" -> Str("2.0")
            [] k = "id" -> IF "id" \in copied THEN src.v["id"] ELSE Null
            [] k = "error" /\ lacking ->
                 Obj([code |-> Num(InternalError),
                      message |-> Str("Internal error: empty response")])
            [] OTHER -> src.v[k]
    IN Stringify(Obj(PropMap(keys, at))))

\* The line sendNotification(method, params) writes.
sendNotification(method, params) ==
  Stringify(Obj([jsonrpc |-> Str("2.0"),
                 method |-> Str(StringOf(OrElse(method, Str("")))),
                 params |-> Coalesce(params, EmptyObj)]))

(***************************************************************************)
(* Response reconciler (lines 156-215)                                     *)
(***************************************************************************)
normalizeRemoteError(err) ==
  IF ~Truthy(err) \/ ~IsObjectType(err)
  THEN Obj([code |-> Num(RemoteError),
            message |-> Str(StringOf(Coalesce(err, Str("Remote error"))))])
  ELSE LET code == ToNumber(IF Get(err, "code") # Undefined THEN Get(err, "code")
                            ELSE IF Get(err, "status") # Undefined THEN Get(err, "status")
                            ELSE Num(RemoteError))
           message == Str(StringOf(
                        Coalesce(Get(err, "message"),
                          Coalesce(Get(err, "error"),
                            Coalesce(Get(err, "reason"), Str("Remote error"))))))
       IN IF Get(err, "data") # Undefined
          THEN Obj([code |-> code, message |-> message, data |-> Get(err, "data")])
          ELSE Obj([code |-> code, message |-> message])

\* Whether coerceToValidResponseForClient takes its notification branch.
IsRemoteNotification(resp) ==
  Truthy(resp) /\ IsObjectType(resp) /\ Has(resp, "method") /\ ~Has(resp, "id")

\* The lines coerceToValidResponseForClient writes itself (line 182).
coerceWrites(resp) ==
  IF IsRemoteNotification(resp)
  THEN LET method == IF IsString(Get(resp, "method")) THEN Get(resp, "method")
                     ELSE Str("remote/notification")
           params == IF Truthy(Get(resp, "params")) /\ IsObjectType(Get(resp, "params"))
                     THEN Get(resp, "params") ELSE EmptyObj
       IN <<sendNotification(method, params)>>
  ELSE <<>>

\* A variant of lines 194, 200 and 212 that addresses every response to the
\* request.
RequestIdOnly(resp, fallbackId) == Coalesce(fallbackId, Null)

\* The id given to a response built from the payload: resp.id ?? fallbackId ?? null
PayloadId(resp, fallbackId) ==
  Coalesce(Coalesce(Get(resp, "id"), fallbackId), Null)

\* A variant of lines 177-215 with the result path ahead of the error paths.
coerceResultFirst(resp, fallbackId) ==
  IF IsRemoteNotification(resp)
  THEN Obj([jsonrpc |-> Str("2.0"), id |-> Coalesce(fallbackId, Null),
            result |-> Obj([ok |-> Bool(TRUE)])])
  ELSE IF ~Truthy(resp) \/ ~IsObjectType(resp)
  THEN makeError(fallbackId, InternalError, "Remote returned non-object", Undefined)
  ELSE IF Has(resp, "result")
  THEN Obj([jsonrpc |-> Str("2.0"), id |-> PayloadId(resp, fallbackId),
            result |-> Get(resp, "result")])
  ELSE IF Has(resp, "error") /\ ~Nullish(Get(resp, "error"))
  THEN Obj([jsonrpc |-> Str("2.0"), id |-> PayloadId(resp, fallbackId),
            error |-> normalizeRemoteError(Get(resp, "error"))])
  ELSE IF Has(resp, "message") \/ Has(resp, "status")
  THEN Obj([jsonrpc |-> Str("2.0"), id |-> PayloadId(resp, fallbackId),
            error |-> normalizeRemoteError(resp)])
  ELSE makeError(fallbackId, InternalError, "Remote missing result and error", Undefined)

\* The value coerceToValidResponseForClient returns.
coerceToValidResponseForClient(resp, fallbackId) ==
  IF IsRemoteNotification(resp)
  THEN Obj([jsonrpc |-> Str("2.0"), id |-> Coalesce(fallbackId, Null),
            result |-> Obj([ok |-> Bool(TRUE)])])
  ELSE IF ~Truthy(resp) \/ ~IsObjectType(resp)
  THEN makeError(fallbackId, InternalError, "Remote returned non-object", Undefined)
  ELSE IF Has(resp, "error") /\ ~Nullish(Get(resp, "error"))
  THEN Obj([jsonrpc |-> Str("2.0"), id |-> PayloadId(resp, fallbackId),
            error |-> normalizeRemoteError(Get(resp, "error"))])
  ELSE IF ~Has(resp, "result") /\ (Has(resp, "message") \/ Has(resp, "status"))
  THEN Obj([jsonrpc |-> Str("2.0"), id |-> PayloadId(resp, fallbackId),
            error |-> normalizeRemoteError(resp)])
  ELSE IF ~Has(resp, "result")
  THEN makeError(fallbackId, InternalError, "Remote missing result and error", Undefined)
  ELSE Obj([jsonrpc |-> Str("2.0"), id |-> PayloadId(resp, fallbackId),
            result |-> Get(resp, "result")])

(***************************************************************************)
(* JSON.parse, on text with integers as its only numbers and \" \\ \/ \n   *)
(* \t \r as its only escapes.                                              *)
(***************************************************************************)
JsonWhitespace == {" ", "\t", "\n", "\r"}

\* The first index >= i of s that holds no JSON white space.
SkipWs(s, i) ==
  FirstWhere(i, Len(s), LAMBDA k : CharAt(s, k) \notin JsonWhitespace,
             IF i > Len(s) THEN i ELSE Len(s) + 1)

ParseFail == [ok |-> FALSE, val |-> Undefined, next |-> 0]

ParseOk(v, next) == [ok |-> TRUE, val |-> v, next |-> next]

StartsWithAt(s, i, lit) ==
  i + Len(lit) - 1 <= Len(s) /\ SubSeq(s, i, i + Len(lit) - 1) = lit

\* The character an escape \e stands for ("" when the model has none).
Unescaped(e) ==
  CASE e \in {"\"", "\\", "/"} -> e
    [] e = "n" -> "\n"
    [] e = "t" -> "\t"
    [] e = "r" -> "\r"
    [] OTHER -> ""

\* The characters after an opening quote, from i up to the closing quote.
\* acc is what precedes i; plain characters are taken a run at a time.
RECURSIVE ParseStringBody(_, _, _)
ParseStringBody(s, i, acc) ==
  Bind(FirstWhere(i, Len(s),
                  LAMBDA k : CharAt(s, k) \in {"\"", "\\", "\n", "\t", "\r"}, 0),
       LAMBDA stop :
         IF stop = 0 THEN ParseFail
         ELSE IF CharAt(s, stop) = "\""
         THEN ParseOk(Str(acc \o SubSeq(s, i, stop - 1)), stop + 1)
         ELSE IF CharAt(s, stop) # "\\" THEN ParseFail
         ELSE IF stop + 1 > Len(s) \/ Unescaped(CharAt(s, stop + 1)) = "" THEN ParseFail
         ELSE ParseStringBody(s, stop + 2,
                acc \o SubSeq(s, i, stop - 1) \o Unescaped(CharAt(s, stop + 1))))

\* The first index >= i of s that holds no digit.
DigitsEnd(s, i) ==
  FirstWhere(i, Len(s), LAMBDA k : CharAt(s, k) \notin Digits,
             IF i > Len(s) THEN i ELSE Len(s) + 1)

ParseNumber(s, i) ==
  LET neg == i <= Len(s) /\ CharAt(s, i) = "-"
      from == IF neg THEN i + 1 ELSE i
      \* a leading 0 is a number of its own
      to == IF from <= Len(s) /\ CharAt(s, from) = "0" THEN from + 1
            ELSE DigitsEnd(s, from)
  IN IF to = from THEN ParseFail
     ELSE IF to <= Len(s) /\ CharAt(s, to) \in {".", "e", "E"} THEN ParseFail
     ELSE ParseOk(Num(IF neg THEN 0 - DigitsValue(s, from, to - 1)
                      ELSE DigitsValue(s, from, to - 1)), to)

\* An object from its members in text order: the last of equal keys wins.
ObjectOf(members) ==
  LET keys == {members[j][1] : j \in 1..Len(members)}
      last(k) == CHOOSE j \in 1..Len(members) :
                   /\ members[j][1] = k
                   /\ \A m \in (j + 1)..Len(members) : members[m][1] # k
      at(k) == members[last(k)][2]
  IN Obj(PropMap(keys, at))

RECURSIVE ParseValue(_, _)
RECURSIVE ParseElements(_, _, _)
RECURSIVE ParseMembers(_, _, _)

\* After "[" or a ",": the next element at i, then "," or "]".
ParseElements(s, i, acc) ==
  Bind(ParseValue(s, SkipWs(s, i)), LAMBDA r :
    LET j == SkipWs(s, r.next)
    IN IF ~r.ok \/ j > Len(s) THEN ParseFail
       ELSE IF CharAt(s, j) = "," THEN ParseElements(s, j + 1, Append(acc, r.val))
       ELSE IF CharAt(s, j) = "]" THEN ParseOk(Arr(Append(acc, r.val)), j + 1)
       ELSE ParseFail)

\* One "key": value at i; val is the pair, next the index after the value.
ParseMember(s, i) ==
  LET k == SkipWs(s, i)
      key == IF k <= Len(s) /\ CharAt(s, k) = "\"" THEN ParseStringBody(s, k + 1, "")
             ELSE ParseFail
      c == SkipWs(s, key.next)
  IN IF ~key.ok \/ c > Len(s) \/ CharAt(s, c) # ":" THEN ParseFail
     ELSE Bind(ParseValue(s, SkipWs(s, c + 1)), LAMBDA r :
            IF ~r.ok THEN ParseFail ELSE ParseOk(<<key.val.v, r.val>>, r.next))

\* After "{" or a ",": the next member at i, then "," or "}".
ParseMembers(s, i, acc) ==
  Bind(ParseMember(s, i), LAMBDA m :
    LET j == SkipWs(s, m.next)
    IN IF ~m.ok \/ j > Len(s) THEN ParseFail
       ELSE IF CharAt(s, j) = "," THEN ParseMembers(s, j + 1, Append(acc, m.val))
       ELSE IF CharAt(s, j) = "}" THEN ParseOk(ObjectOf(Append(acc, m.val)), j + 1)
       ELSE ParseFail)

ParseValue(s, i) ==
  Bind(i, LAMBDA p :
    IF p > Len(s) THEN ParseFail
    ELSE CASE StartsWithAt(s, p, "null") -> ParseOk(Null, p + 4)
           [] StartsWithAt(s, p, "true") -> ParseOk(Bool(TRUE), p + 4)
           [] StartsWithAt(s, p, "false") -> ParseOk(Bool(FALSE), p + 5)
           [] CharAt(s, p) = "\"" -> ParseStringBody(s, p + 1, "")
           [] CharAt(s, p) = "[" ->
                IF StartsWithAt(s, SkipWs(s, p + 1), "]")
                THEN ParseOk(Arr(<<>>), SkipWs(s, p + 1) + 1)
                ELSE ParseElements(s, p + 1, <<>>)
           [] CharAt(s, p) = "{" ->
                IF StartsWithAt(s, SkipWs(s, p + 1), "}")
                THEN ParseOk(EmptyObj, SkipWs(s, p + 1) + 1)
                ELSE ParseMembers(s, p + 1, <<>>)
           [] CharAt(s, p) = "-" \/ CharAt(s, p) \in Digits -> ParseNumber(s, p)
           [] OTHER -> ParseFail)

\* JSON.parse(text): ok is FALSE where it throws.
JSONparse(text) ==
  Bind(text, LAMBDA s :
    Bind(ParseValue(s, SkipWs(s, 1)), LAMBDA r :
      IF r.ok /\ SkipWs(s, r.next) = Len(s) + 1
      THEN [ok |-> TRUE, val |-> r.val]
      ELSE [ok |-> FALSE, val |-> Undefined]))

(***************************************************************************)
(* Body decoder (lines 71-91)                                              *)
(***************************************************************************)
\* The first index >= from at which sub occurs in s, 0 when there is none.
IndexOf(s, sub, from) ==
  FirstWhere(from, Len(s), LAMBDA k : StartsWithAt(s, k, sub), 0)

\* s.includes(sub)
Includes(s, sub) == IndexOf(s, sub, 1) # 0

\* s.slice(from - 1).split(sep), for a non-empty sep
RECURSIVE SplitFrom(_, _, _)
SplitFrom(s, sep, from) ==
  Bind(IndexOf(s, sep, from), LAMBDA i :
    IF i = 0 THEN <<SubSeq(s, from, Len(s))>>
    ELSE <<SubSeq(s, from, i - 1)>> \o SplitFrom(s, sep, i + Len(sep)))

\* s.split(sep)
Split(s, sep) == SplitFrom(s, sep, 1)

\* line.slice(5).trim() of a line that starts with 'data:', else "".
DataPayload(line) ==
  IF StartsWithAt(line, 1, "data:") THEN Trim(SubSeq(line, 6, Len(line))) ELSE ""

\* The loop of lines 76-81 over lines[k..]: the last non-empty payload.
RECURSIVE LastDataOfLines(_, _, _)
LastDataOfLines(lines, k, lastData) ==
  IF k > Len(lines) THEN lastData
  ELSE Bind(DataPayload(lines[k]), LAMBDA payload :
         LastDataOfLines(lines, k + 1, IF payload # "" THEN payload ELSE lastData))

\* The loop of lines 74-82 over chunks[k..]; "" stands for the null lastData.
RECURSIVE LastDataOfChunks(_, _, _)
LastDataOfChunks(chunks, k, lastData) ==
  IF k > Len(chunks) THEN lastData
  ELSE Bind(LastDataOfLines(Split(chunks[k], "\n"), 1, lastData), LAMBDA found :
         LastDataOfChunks(chunks, k + 1, found))

\* The first "}" at or after i that ends the text or precedes a newline.
ClosingBrace(s, i) ==
  FirstWhere(i, Len(s),
             LAMBDA k : CharAt(s, k) = "}" /\ (k = Len(s) \/ CharAt(s, k + 1) = "\n"), 0)

\* The capture of the last match of /data:\s*(\{[\s\S]*?\})(?=\n|$)/g from
\* position from on, last when there is none.
RECURSIVE LastBraceMatch(_, _, _)
LastBraceMatch(s, from, last) ==
  Bind(IndexOf(s, "data:", from), LAMBDA i :
    IF i = 0 THEN last
    ELSE Bind(SkipSpace(s, i + 5), LAMBDA b :
      Bind(IF b <= Len(s) /\ CharAt(s, b) = "{" THEN ClosingBrace(s, b + 1) ELSE 0,
           LAMBDA e :
             IF e = 0 THEN LastBraceMatch(s, i + 1, last)
             ELSE LastBraceMatch(s, e + 1, SubSeq(s, b, e)))))

\* text.split('\n\n').map(c => c.trim()).filter(Boolean)
SseChunks(text) ==
  Bind(Split(text, "\n\n"), LAMBDA parts :
    SelectSeq([i \in 1..Len(parts) |-> Trim(parts[i])], LAMBDA c : c # ""))

\* lastData when line 87 is reached ("" for null).
SseLastData(text) ==
  Bind(LastDataOfChunks(SseChunks(text), 1, ""), LAMBDA scanned :
    IF scanned = "" /\ Includes(text, "data:") THEN LastBraceMatch(text, 1, "")
    ELSE scanned)

\* Line 89: JSON.parse(JSON.parse(lastData)), ok FALSE where either throws.
ParseTwice(lastData) ==
  Bind(JSONparse(lastData), LAMBDA inner :
    IF inner.ok THEN JSONparse(StringOf(inner.val))
    ELSE [ok |-> FALSE, val |-> Undefined])

parseSseLike(text) ==
  Bind(SseLastData(text), LAMBDA lastData :
    IF lastData = "" THEN Null
    ELSE Bind(JSONparse(lastData), LAMBDA first :
           IF first.ok THEN first.val
           ELSE Bind(ParseTwice(lastData), LAMBDA second :
                  IF second.ok THEN second.val ELSE Null)))

(***************************************************************************)
(* Remote invoker (lines 93-135)                                           *)
(***************************************************************************)
UpperLetters == "ABCDEFGHIJKLMNOPQRSTUVWXYZ"

LowerLetters == "abcdefghijklmnopqrstuvwxyz"

LowerChar(c) ==
  Bind({i \in 1..Len(UpperLetters) : CharAt(UpperLetters, i) = c}, LAMBDA up :
    IF up = {} THEN c ELSE CharAt(LowerLetters, CHOOSE i \in up : TRUE))

\* s.slice(i - 1).toLowerCase(), of ASCII text
RECURSIVE LowerFrom(_, _)
LowerFrom(s, i) ==
  IF i > Len(s) THEN ""
  ELSE Bind(FirstWhere(i, Len(s), LAMBDA k : LowerChar(CharAt(s, k)) # CharAt(s, k), 0),
            LAMBDA up :
              IF up = 0 THEN SubSeq(s, i, Len(s))
              ELSE SubSeq(s, i, up - 1) \o LowerChar(CharAt(s, up)) \o LowerFrom(s, up + 1))

\* .toLowerCase()
ToLowerCase(s) == LowerFrom(s, 1)

\* What the call of fetch and the read of the body come to:
\*   [kind |-> "response", status, contentType (a string or Null), text], or
\*   [kind |-> "failed" | "aborted", name, message], the error thrown.
HttpResponse(status, contentType, text) ==
  [kind |-> "response", status |-> status, contentType |-> contentType,
   text |-> text, name |-> "", message |-> ""]

FetchError(kind, name, message) ==
  [kind |-> kind, status |-> 0, contentType |-> Null, text |-> "",
   name |-> name, message |-> message]

\* res.ok
ResponseOk(o) == o.status \in 200..299

\* String(e) of an Error
ErrorString(o) == IF o.message = "" THEN o.name ELSE o.name \o ": " \o o.message

\* Lines 115-129: the decoding of the body of a 2xx response.
decodeBody(ct, text, expectId) ==
  IF Includes(ct, "text/event-stream")
  THEN Bind(parseSseLike(text), LAMBDA parsed :
         IF ~Truthy(parsed)
         THEN makeError(expectId, ParseError, "Parse error (no SSE data)", Str(text))
         ELSE parsed)
  ELSE Bind(JSONparse(text), LAMBDA json :
         IF json.ok THEN json.val
         ELSE Bind(parseSseLike(text), LAMBDA parsed :
                IF Truthy(parsed) THEN parsed
                ELSE makeError(expectId, ParseError, "Parse error (invalid JSON)",
                               Str(text))))

\* A variant of line 131 that reports a failed call under the code of a
\* remote error.
forwardToRemoteOneCode(o, expectId) ==
  IF o.kind # "response"
  THEN makeError(expectId, RemoteError, "Network error forwarding to remote MCP",
                 OrElse(Str(o.message), Str(ErrorString(o))))
  ELSE IF ~ResponseOk(o)
  THEN makeError(expectId, RemoteError,
                 "Remote MCP error " \o IntToString(o.status), Str(o.text))
  ELSE decodeBody(ToLowerCase(OrElse(o.contentType, Str("")).v), o.text, expectId)

\* The value forwardToRemote resolves to when the call comes to outcome o.
forwardToRemote(o, expectId) ==
  IF o.kind # "response"
  THEN makeError(expectId, NetworkError, "Network error forwarding to remote MCP",
                 OrElse(Str(o.message), Str(ErrorString(o))))
  ELSE IF ~ResponseOk(o)
  THEN makeError(expectId, RemoteError,
                 "Remote MCP error " \o IntToString(o.status), Str(o.text))
  ELSE Bind(ToLowerCase(OrElse(o.contentType, Str("")).v), LAMBDA ct :
         decodeBody(ct, o.text, expectId))

(***************************************************************************)
(* Session controller (lines 141-155, 217-272)                             *)
(***************************************************************************)
\* The object localInitializeSuccess(id) returns (it also sets the flag).
localInitializeSuccess(id) ==
  Obj([jsonrpc |-> Str("2.0"), id |-> id,
       result |-> Obj([protocolVersion |-> Str("2024-11-05"),
                       serverInfo |-> Obj([name |-> Str("dify-mcp-bridge"),
                                           version |-> Str("1.0.0")]),
                       capabilities |-> EmptyObj,
                       tools |-> Arr(<<>>)])])

\* msg.id ?? null
RequestId(msg) == Coalesce(Get(msg, "id"), Null)

\* A variant of line 231 that tests the type alone.
AnyStringMethod(method) == IsString(method)

\* typeof method === 'string' && method
ValidMethod(method) == IsString(method) /\ Truthy(method)

\* A variant of lines 222-226 that answers an undecodable line with a parse
\* error instead of dropping it.
handleMessageStartAnswering(line) ==
  IF line = "" \/ Trim(line) = ""
  THEN [pc |-> "returned", written |-> <<>>, msg |-> Undefined]
  ELSE Bind(JSONparse(line), LAMBDA parsed :
         IF ~parsed.ok
         THEN [pc |-> "returned",
               written |-> <<sendResponse(makeError(Null, ParseError, "Parse error",
                                                    Undefined))>>,
               msg |-> Undefined]
         ELSE IF Nullish(parsed.val)
         THEN [pc |-> "threw", written |-> <<>>, msg |-> parsed.val]
         ELSE IF ~IsString(Get(parsed.val, "method")) \/ ~Truthy(Get(parsed.val, "method"))
         THEN [pc |-> "returned",
               written |-> <<sendResponse(makeError(Coalesce(Get(parsed.val, "id"), Null),
                                            InvalidRequest,
                                            "Invalid Request: missing method", Undefined))>>,
               msg |-> parsed.val]
         ELSE [pc |-> "await", written |-> <<>>, msg |-> parsed.val])

\* handleMessage from its entry to its first suspension or its return:
\*   pc "returned": it returned, having written `written`;
\*   pc "threw":    it threw (msg.id of null), so the promise is rejected;
\*   pc "await":    it called forwardToRemote(msg, id) and is suspended.
\* msg is what JSON.parse(line) returned, Undefined where it threw.
handleMessageStart(line) ==
  IF line = "" \/ Trim(line) = ""
  THEN [pc |-> "returned", written |-> <<>>, msg |-> Undefined]
  ELSE Bind(JSONparse(line), LAMBDA parsed :
         IF ~parsed.ok THEN [pc |-> "returned", written |-> <<>>, msg |-> Undefined]
         ELSE IF Nullish(parsed.val)
         THEN [pc |-> "threw", written |-> <<>>, msg |-> parsed.val]
         ELSE IF ~ValidMethod(Get(parsed.val, "method"))
         THEN [pc |-> "returned",
               written |-> <<sendResponse(makeError(RequestId(parsed.val), InvalidRequest,
                                            "Invalid Request: missing method", Undefined))>>,
               msg |-> parsed.val]
         ELSE [pc |-> "await", written |-> <<>>, msg |-> parsed.val])

\* Line 253: the text of the warning.
InitializeWarning(remote) ==
  "dify-bridge: remote initialize failed ("
    \o StringOf(OrElse(Get(Get(remote, "error"), "message"), Str("unknown")))
    \o ")"

\* A variant of lines 270-271 that sends the payload as it came.
SendUnreconciled(remote, id) ==
  coerceWrites(remote) \o <<sendResponse(remote)>>

\* A variant in which the response is written ahead of the notification.
SendThenNotify(remote, id) ==
  <<sendResponse(coerceToValidResponseForClient(remote, id))>> \o coerceWrites(remote)

\* Lines 243-244 and 270-271: reconcile and send.
ReconcileAndSend(remote, id) ==
  coerceWrites(remote) \o <<sendResponse(coerceToValidResponseForClient(remote, id))>>

\* A variant of lines 248-256 that passes the remote error on to the client.
handleInitializePassingError(remote, id) ==
  IF Truthy(remote) /\ Truthy(Get(remote, "result"))
  THEN [written |-> coerceWrites(With(remote, "result",
                                      repairToolsInInitializeResult(Get(remote, "result"))))
                      \o <<sendResponse(coerceToValidResponseForClient(
                             With(remote, "result",
                                  repairToolsInInitializeResult(Get(remote, "result"))), id))>>,
        initialized |-> TRUE, logged |-> 0]
  ELSE IF Truthy(remote) /\ Truthy(Get(remote, "error"))
  THEN [written |-> <<sendResponse(coerceToValidResponseForClient(remote, id))>>,
        initialized |-> FALSE, logged |-> 1]
  ELSE [written |-> <<sendResponse(localInitializeSuccess(id))>>,
        initialized |-> TRUE, logged |-> 0]

\* Lines 238-261: the initialize branch once forwardToRemote has resolved.
handleInitialize(remote, id) ==
  IF Truthy(remote) /\ Truthy(Get(remote, "result"))
  THEN Bind(With(remote, "result", repairToolsInInitializeResult(Get(remote, "result"))),
            LAMBDA repaired :
              [written |-> ReconcileAndSend(repaired, id),
               initialized |-> TRUE, logged |-> 0])
  ELSE IF Truthy(remote) /\ Truthy(Get(remote, "error"))
  THEN [written |->
          <<sendResponse(localInitializeSuccess(id)),
            sendNotification(Str("notifications/message"),
              Obj([level |-> Str("warning"),
                   message |-> Str(InitializeWarning(remote))]))>>,
        initialized |-> TRUE, logged |-> 1]
  ELSE [written |-> <<sendResponse(localInitializeSuccess(id))>>,
        initialized |-> TRUE, logged |-> 0]

\* A variant of lines 263-271 that takes any answered request to open the
\* session.
handleOtherMarking(remote, id, flag) ==
  [written |-> coerceWrites(remote)
                 \o <<sendResponse(coerceToValidResponseForClient(remote, id))>>,
   initialized |-> TRUE, logged |-> 0]

\* A variant of lines 263-271 that takes a remote notification to need no
\* response of its own.
handleOtherNotifyOnly(remote, id, flag) ==
  [written |-> IF IsRemoteNotification(remote) THEN coerceWrites(remote)
               ELSE coerceWrites(remote)
                      \o <<sendResponse(coerceToValidResponseForClient(remote, id))>>,
   initialized |-> flag, logged |-> 0]

\* Lines 263-271: every other method once forwardToRemote has resolved.
handleOther(remote, id, flag) ==
  Bind(IF /\ Truthy(remote)
          /\ Truthy(Get(remote, "result"))
          /\ IsArray(Get(Get(remote, "result"), "tools"))
       THEN With(remote, "result", repairToolsInInitializeResult(Get(remote, "result")))
       ELSE remote,
       LAMBDA repaired :
         [written |-> ReconcileAndSend(repaired, id),
          initialized |-> flag, logged |-> 0])

\* handleMessage from the resolution of forwardToRemote to its return.
handleMessageResume(msg, remote, flag) ==
  IF Get(msg, "method") = Str("initialize")
  THEN handleInitialize(remote, RequestId(msg))
  ELSE handleOther(remote, RequestId(msg), flag)

(***************************************************************************)
(* The process: readline's 'line' events, the pending remote calls, the    *)
(* two output streams, the exit handlers (lines 137-141, 274-279)          *)
(***************************************************************************)
VARIABLES
  alive,        \* the process has not exited
  pipes,        \* one record per 'line' event so far, in arrival order
  output,       \* the lines written to stdout, each with the pipe that wrote it
  posts,        \* the HTTP POSTs made, each with the pipe that made it
  diag,         \* the number of lines written to stderr by log()
  initialized,  \* the flag of line 141
  rcArgs,       \* a call of the reconciler on its own: [resp, fallbackId]
  rcOut,        \* the lines that call wrote and sent, <<>> before it
  szIn,         \* a call of the sanitizer on its own: the result passed
  szOut,        \* what it returned, <<>> before the call
  szTwice,      \* what it returned for szOut in turn, <<>> before that call
  dcIn,         \* a call of the invoker on its own: the response fetched
  dcOut         \* what forwardToRemote resolved to, <<>> before that

procVars == <<alive, pipes, output, posts, diag, initialized>>

rcVars == <<rcArgs, rcOut>>

szVars == <<szIn, szOut, szTwice>>

dcVars == <<dcIn, dcOut>>

pureVars == <<rcVars, szVars, dcVars>>

\* No call of the reconciler on its own.
ReconcilerIdle == rcArgs = [resp |-> Null, fallbackId |-> Null] /\ rcOut = <<>>

\* No call of the sanitizer on its own.
SanitizerIdle == szIn = Null /\ szOut = <<>> /\ szTwice = <<>>

\* No call of the invoker on its own.
InvokerIdle == dcIn = Null /\ dcOut = <<>>

\* The process at its start.
ProcessStarted ==
  /\ alive = TRUE
  /\ pipes = <<>>
  /\ output = <<>>
  /\ posts = <<>>
  /\ diag = 1
  /\ initialized = FALSE

vars == <<procVars, pureVars>>

\* How many 'line' events a run holds.
MaxLines == 2

\* The inbound lines of the model.
Lines ==
  { "",
    "  \t",
    "{oops",
    "null",
    "5",
    "{\"jsonrpc\":\"2.0\",\"id\":7}",
    "{\"id\":8,\"method\":\"\"}",
    "{\"method\":5}",
    "{\"jsonrpc\":\"2.0\",\"id\":1,\"method\":\"initialize\"}",
    "{\"jsonrpc\":\"2.0\",\"id\":2,\"method\":\"tools/list\"}",
    "{\"jsonrpc\":\"2.0\",\"method\":\"ping\"}" }

\* The text of an id as the remote writes it back.
IdText(id) ==
  CASE id.t = "num" -> IntToString(id.v)
    [] id.t = "str" -> "\"" \o id.v \o "\""
    [] OTHER -> "null"

\* The HTTP responses the remote may give to a request with this id.
Responses(id) ==
  { HttpResponse(200, Str("Text/Event-Stream"),
      "event: message\ndata: {\"id\":" \o IdText(id)
        \o ",\"result\":{\"tools\":[{\"name\":\"My Tool!!\"}]}}\n\n"),
    HttpResponse(200, Str("application/json"), "{\"id\":99,\"result\":{\"x\":1}}"),
    HttpResponse(200, Str("application/json"),
      "{\"result\":{\"x\":1},\"error\":{\"code\":-1,\"message\":\"boom\"}}"),
    HttpResponse(200, Str("application/json"),
      "{\"id\":" \o IdText(id) \o ",\"error\":{\"message\":\"boom\"}}"),
    HttpResponse(200, Str("application/json"), "{\"status\":\"x\",\"message\":\"down\"}"),
    HttpResponse(200, Str("application/json"),
      "{\"method\":\"log\",\"params\":{\"level\":\"info\"}}"),
    HttpResponse(200, Str("application/json"), "[1]"),
    HttpResponse(200, Null, "<html>"),
    HttpResponse(502, Str("text/plain"), "Bad Gateway") }

\* The error fetch rejects with when the connection fails.
FetchFailed == FetchError("failed", "TypeError", "fetch failed")

\* The error fetch, or the read of the body, rejects with on controller.abort().
FetchAborted == FetchError("aborted", "AbortError", "This operation was aborted")

NoOutcome == FetchError("none", "", "")

\* What a call can come to: a response, a failed connection, an abort.
Outcomes(id) == Responses(id) \cup {FetchFailed, FetchAborted}

\* JSON.parse of each line.
Decoded == [l \in Lines |-> JSONparse(l)]

\* handleMessage(l) up to its first suspension, for each line.
Started == [l \in Lines |-> handleMessageStart(l)]

\* The messages forwarded.
Requests == {Started[l].msg : l \in {x \in Lines : Started[x].pc = "await"}}

\* The body of the POST made for each.
Posted == [m \in Requests |-> Stringify(m)]

\* What forwardToRemote(m, id) resolves to under each outcome.
Resolved ==
  [m \in Requests |-> [o \in Outcomes(RequestId(m)) |-> forwardToRemote(o, RequestId(m))]]

\* handleMessage from there on, under each value of the flag.
Resumed ==
  [m \in Requests |->
    [o \in Outcomes(RequestId(m)) |->
      [flag \in BOOLEAN |-> handleMessageResume(m, Resolved[m][o], flag)]]]

Tagged(i, frames) == [k \in 1..Len(frames) |-> [by |-> i, frame |-> frames[k]]]

Init == ProcessStarted /\ ReconcilerIdle /\ SanitizerIdle /\ InvokerIdle

\* rl.on('line'): handleMessage(l) runs to its first await or its return; a
\* rejection is logged by the .catch of line 276.
LineArrives(l) ==
  /\ alive
  /\ Len(pipes) < MaxLines
  /\ \E step \in {Started[l]} :
       /\ pipes' = Append(pipes, [line |-> l, msg |-> step.msg, pc |-> step.pc,
                                  outcome |-> NoOutcome])
       /\ output' = output \o Tagged(Len(pipes) + 1, step.written)
       /\ posts' = IF step.pc = "await"
                   THEN Append(posts, [by |-> Len(pipes) + 1, body |-> Posted[step.msg]])
                   ELSE posts
       /\ diag' = IF step.pc = "threw" THEN diag + 1 ELSE diag
  /\ UNCHANGED <<alive, initialized, pureVars>>

\* A variant of forwardToRemote that POSTs again when the call failed.
SettleRetrying(i, o) ==
  /\ alive
  /\ pipes[i].pc = "await"
  /\ \E step \in {Resumed[pipes[i].msg][o][initialized]} :
         /\ pipes' = [pipes EXCEPT ![i] = [@ EXCEPT !.pc = "returned", !.outcome = o]]
         /\ output' = output \o Tagged(i, step.written)
         /\ initialized' = step.initialized
         /\ diag' = diag + step.logged
  /\ posts' = IF o.kind \in {"failed", "aborted"}
              THEN Append(posts, [by |-> i, body |-> Posted[pipes[i].msg]])
              ELSE posts
  /\ UNCHANGED <<alive, pureVars>>

\* The call of pipe i comes to outcome o: forwardToRemote resolves and
\* handleMessage runs from there to its return.
Settle(i, o) ==
  /\ alive
  /\ pipes[i].pc = "await"
  /\ \E step \in {Resumed[pipes[i].msg][o][initialized]} :
         /\ pipes' = [pipes EXCEPT ![i] = [@ EXCEPT !.pc = "returned", !.outcome = o]]
         /\ output' = output \o Tagged(i, step.written)
         /\ initialized' = step.initialized
         /\ diag' = diag + step.logged
  /\ UNCHANGED <<alive, posts, pureVars>>

\* The remote answers the POST of pipe i.
RemoteResponds(i) ==
  \E o \in Responses(RequestId(pipes[i].msg)) : Settle(i, o)

\* The connection of pipe i fails: fetch rejects.
NetworkFails(i) == Settle(i, FetchFailed)

\* The timer of line 95 fires while pipe i awaits: the call is aborted.
TimeoutFires(i) == Settle(i, FetchAborted)

\* process.exit(0)
Exit ==
  /\ alive
  /\ alive' = FALSE
  /\ UNCHANGED <<pipes, output, posts, diag, initialized, pureVars>>

\* rl.on('close')
InputCloses == Exit

\* process.on('SIGINT')
Interrupted == Exit

\* process.on('SIGTERM')
Terminated == Exit

Next ==
  \/ \E l \in Lines : LineArrives(l)
  \/ \E i \in 1..Len(pipes) : RemoteResponds(i)
  \/ \E i \in 1..Len(pipes) : NetworkFails(i)
  \/ \E i \in 1..Len(pipes) : TimeoutFires(i)
  \/ InputCloses
  \/ Interrupted
  \/ Terminated

Spec == Init /\ [][Next]_vars

(***************************************************************************)
(* The reconciler on its own: coerceToValidResponseForClient(resp,         *)
(* fallbackId) followed by sendResponse, for every shape of payload.       *)
(***************************************************************************)
PayloadFields == {"method", "id", "error", "result", "message", "status"}

FieldValue(k) ==
  CASE k = "method" -> Str("log")
    [] k = "id" -> Num(99)
    [] k = "error" -> Obj([message |-> Str("boom")])
    [] k = "result" -> Obj([x |-> Num(1)])
    [] k = "message" -> Str("down")
    [] OTHER -> Num(503)

\* One payload per set of fields present, with params beside them.
PayloadWith(keys) ==
  Obj([k \in keys \cup {"params"} |->
         IF k = "params" THEN Obj([level |-> Str("info")]) ELSE FieldValue(k)])

\* p with its error, if it has one, replaced by e.
WithError(p, e) == Obj([k \in DOMAIN p.v |-> IF k = "error" THEN e ELSE p.v[k]])

\* Every set of fields present; an error is an object, null or false.
MappingPayloads ==
  LET plain == {PayloadWith(keys) : keys \in SUBSET PayloadFields}
  IN plain \cup {WithError(p, e) : p \in plain, e \in {Null, Bool(FALSE)}}

OtherPayloads == {Null, Num(5), Str("ok"), Bool(TRUE), Arr(<<Num(1)>>)}

FallbackIds == {Null, Num(2), Str("a")}

InitReconcile ==
  /\ ProcessStarted /\ SanitizerIdle /\ InvokerIdle
  /\ rcArgs \in [resp : MappingPayloads \cup OtherPayloads, fallbackId : FallbackIds]
  /\ rcOut = <<>>

Reconcile ==
  /\ rcOut = <<>>
  /\ rcOut' = ReconcileAndSend(rcArgs.resp, rcArgs.fallbackId)
  /\ UNCHANGED <<procVars, rcArgs, szVars, dcVars>>

SpecReconcile == InitReconcile /\ [][Reconcile]_vars

(***************************************************************************)
(* The process with its timers: a timer that stays armed fires (line 95).  *)
(***************************************************************************)
TimerOf(i) == IF i \in 1..Len(pipes) THEN TimeoutFires(i) ELSE FALSE

FairSpec == Spec /\ \A i \in 1..MaxLines : WF_vars(TimerOf(i))

(***************************************************************************)
(* Properties                                                              *)
(***************************************************************************)
\* The frames pipe i has written, in the order written.
FramesBy(i) ==
  LET mine == SelectSeq(output, LAMBDA w : w.by = i)
  IN [k \in 1..Len(mine) |-> mine[k].frame]

\* The POSTs pipe i has made.
PostsBy(i) == SelectSeq(posts, LAMBDA q : q.by = i)

IsResponseFrame(f) ==
  /\ f.t = "obj"
  /\ DOMAIN f.v \in {{"jsonrpc", "id", "result"}, {"jsonrpc", "id", "error"}}
  /\ f.v["jsonrpc"] = Str("2.0")

IsNotificationFrame(f) ==
  /\ f.t = "obj"
  /\ DOMAIN f.v = {"jsonrpc", "method", "params"}
  /\ f.v["jsonrpc"] = Str("2.0")

IsErrorFrame(f, code) ==
  /\ IsResponseFrame(f)
  /\ "error" \in DOMAIN f.v
  /\ Get(f.v["error"], "code") = Num(code)

ResponsesBy(i) == SelectSeq(FramesBy(i), IsResponseFrame)

NotificationsBy(i) == SelectSeq(FramesBy(i), IsNotificationFrame)

\* Pipe i was forwarded and its call has come to an outcome.
Settled(i) == pipes[i].pc = "returned" /\ pipes[i].outcome.kind # "none"

MethodOf(i) == Get(pipes[i].msg, "method")

\* The payload the call of a settled pipe resolved to.
RemoteOf(i) == Resolved[pipes[i].msg][pipes[i].outcome]

\* C1: every line written to standard output is a response (version tag, an
\* id, exactly one of result and error, nothing more) or a notification
\* (version tag, method, params, no id).
C1_OutputFrames ==
  \A k \in 1..Len(output) :
    IsResponseFrame(output[k].frame) \/ IsNotificationFrame(output[k].frame)

\* A notification, an error response and a success response have been written.
C1_Witness ==
  /\ \E k \in 1..Len(output) : IsNotificationFrame(output[k].frame)
  /\ \E k \in 1..Len(output) :
       IsResponseFrame(output[k].frame) /\ "error" \in DOMAIN output[k].frame.v
  /\ \E k \in 1..Len(output) :
       IsResponseFrame(output[k].frame) /\ "result" \in DOMAIN output[k].frame.v

\* C2: a message whose method is a non-empty string other than initialize
\* writes nothing while its call is pending and, once the call has come to
\* any outcome, has written exactly one response and at most one
\* notification, the latter only if the payload has a method and no id.
C2_OneResponse ==
  \A i \in 1..Len(pipes) :
    (ValidMethod(MethodOf(i)) /\ MethodOf(i) # Str("initialize")) =>
      /\ pipes[i].pc = "await" => FramesBy(i) = <<>>
      /\ Settled(i) =>
           /\ Len(ResponsesBy(i)) = 1
           /\ Len(NotificationsBy(i)) <= 1
           /\ Len(FramesBy(i)) = Len(ResponsesBy(i)) + Len(NotificationsBy(i))
           /\ Len(NotificationsBy(i)) = 1 => IsRemoteNotification(RemoteOf(i))

\* One such message answered a notification payload, another a failed call.
C2_Witness ==
  \E i, j \in 1..Len(pipes) :
    /\ MethodOf(i) # Str("initialize") /\ Settled(i)
    /\ Len(NotificationsBy(i)) = 1 /\ Len(ResponsesBy(i)) = 1
    /\ MethodOf(j) # Str("initialize") /\ Settled(j)
    /\ pipes[j].outcome.kind = "failed" /\ Len(FramesBy(j)) = 1

\* The step of the six-step precedence a payload falls under.
RefStep(p) ==
  LET present(k) == p.t = "obj" /\ k \in DOMAIN p.v
  IN IF present("method") /\ ~present("id") THEN 1
     ELSE IF p.t # "obj" THEN 2
     ELSE IF present("error") /\ p.v["error"] # Null THEN 3
     ELSE IF ~present("result") /\ (present("message") \/ present("status")) THEN 4
     ELSE IF ~present("result") THEN 5
     ELSE 6

\* The id of the request of pipe i, null when it has none.
IdOfRequest(i) ==
  IF Has(pipes[i].msg, "id") /\ pipes[i].msg.v["id"] # Null THEN pipes[i].msg.v["id"]
  ELSE Null

\* The response of pipe i was built from the remote payload by the error,
\* error-shaped or success step, and the payload has a non-null id of its own.
AnswersWithPayloadId(i) ==
  /\ Settled(i)
  /\ MethodOf(i) # Str("initialize") \/ Truthy(Get(RemoteOf(i), "result"))
  /\ RefStep(RemoteOf(i)) \in {3, 4, 6}
  /\ Has(RemoteOf(i), "id") /\ RemoteOf(i).v["id"] # Null

\* C3 as stated: every response written has the id of the request that
\* triggered it, whatever id the remote payload carries.
C3_IdOfRequest ==
  \A i \in 1..Len(pipes) :
    pipes[i].msg # Undefined =>
      \A k \in 1..Len(ResponsesBy(i)) :
        ResponsesBy(i)[k].v["id"] = RequestId(pipes[i].msg)

\* C3 amended: every response written has the id of the request that
\* triggered it (null when it has none), except a response built from a
\* remote payload with a non-null id of its own, which has that id.
C3_IdOfPayloadElseRequest ==
  \A i \in 1..Len(pipes) :
    pipes[i].msg # Undefined =>
      \A k \in 1..Len(ResponsesBy(i)) :
        ResponsesBy(i)[k].v["id"] =
          (IF AnswersWithPayloadId(i) THEN RemoteOf(i).v["id"] ELSE IdOfRequest(i))

\* The request with id 2 was answered by a payload with id 99, another
\* request by a payload without an id.
C3_Witness ==
  \E i, j \in 1..Len(pipes) :
    /\ Settled(i) /\ IdOfRequest(i) = Num(2)
    /\ Len(ResponsesBy(i)) = 1 /\ ResponsesBy(i)[1].v["id"] = Num(99)
    /\ Settled(j) /\ IdOfRequest(j) = Num(1)
    /\ RefStep(RemoteOf(j)) = 3 /\ ~Has(RemoteOf(j), "id")
    /\ Len(ResponsesBy(j)) = 1 /\ ResponsesBy(j)[1].v["id"] = Num(1)

\* C4: when a line arrives, the pipeline of every earlier line has finished.
C4_OneAtATime ==
  \A i, j \in 1..Len(pipes) : i < j => pipes[i].pc # "await"

\* C5: a line that parses as JSON and whose handler has run to its end has a
\* response on the output.
C5_Answered ==
  \A i \in 1..Len(pipes) :
    (Decoded[pipes[i].line].ok /\ pipes[i].pc # "await") => Len(ResponsesBy(i)) >= 1

\* The line decodes to a JSON object without a usable method.
NoMethod(i) ==
  /\ pipes[i].msg # Undefined
  /\ pipes[i].msg.t = "obj"
  /\ LET m == MethodOf(i) IN m = Undefined \/ ~IsString(m) \/ m = Str("")

\* C6: a request whose method is missing, not a string or empty gets exactly
\* one line, an error response with code -32600 and the request's id (null
\* if it has none), and no POST is made for it.
C6_InvalidRequest ==
  \A i \in 1..Len(pipes) :
    NoMethod(i) =>
      /\ pipes[i].pc = "returned"
      /\ Len(FramesBy(i)) = 1
      /\ IsErrorFrame(FramesBy(i)[1], -32600)
      /\ FramesBy(i)[1].v["id"] =
           (IF Has(pipes[i].msg, "id") THEN pipes[i].msg.v["id"] ELSE Null)
      /\ PostsBy(i) = <<>>

\* The three kinds of such a request are among the lines handled.
C6_Witness ==
  \E i, j \in 1..Len(pipes) :
    /\ NoMethod(i) /\ MethodOf(i) = Str("") /\ FramesBy(i)[1].v["id"] = Num(8)
    /\ NoMethod(j) /\ MethodOf(j) \in {Undefined, Num(5)} /\ Len(FramesBy(j)) = 1

\* The line is empty, white space only or not valid JSON.
Dropped(line) == line = "" \/ Trim(line) = "" \/ ~Decoded[line].ok

\* C7: a line that is empty, white space only or not valid JSON never has a
\* line of output or a POST, and the step in which it arrives leaves the
\* output, the POSTs made, the initialized flag and the process as they were.
C7_SilentDrop ==
  /\ [](\A i \in 1..Len(pipes) :
          Dropped(pipes[i].line) =>
            pipes[i].pc = "returned" /\ FramesBy(i) = <<>> /\ PostsBy(i) = <<>>)
  /\ [][(Len(pipes') = Len(pipes) + 1 /\ Dropped(pipes'[Len(pipes')].line)) =>
          /\ output' = output
          /\ posts' = posts
          /\ initialized' = initialized
          /\ alive /\ alive']_vars

\* A dropped line was followed by a line that was forwarded and answered.
C7_Witness ==
  /\ Len(pipes) = 2
  /\ Dropped(pipes[1].line)
  /\ alive
  /\ Settled(2) /\ Len(ResponsesBy(2)) = 1

\* The two lines a remote notification gives rise to, for a request with this id.
NotificationPair(remote, id) ==
  <<Obj([jsonrpc |-> Str("2.0"),
         method |-> IF IsString(Get(remote, "method")) THEN Get(remote, "method")
                    ELSE Str("remote/notification"),
         params |-> IF IsObjectType(Get(remote, "params")) THEN Get(remote, "params")
                    ELSE EmptyObj]),
    Obj([jsonrpc |-> Str("2.0"), id |-> id, result |-> Obj([ok |-> Bool(TRUE)])])>>

\* Pipe i has written exactly this pair, one line right after the other.
WrotePair(i, pair) ==
  /\ FramesBy(i) = pair
  /\ \E k \in 1..(Len(output) - 1) : output[k].by = i /\ output[k + 1].by = i

RefMatches(p, lines) ==
  LET last == lines[Len(lines)]
  IN /\ Len(lines) = (IF RefStep(p) = 1 THEN 2 ELSE 1)
     /\ IsResponseFrame(last)
     /\ CASE RefStep(p) = 1 ->
               /\ IsNotificationFrame(lines[1])
               /\ lines[1].v["method"] = p.v["method"]
               /\ lines[1].v["params"] = p.v["params"]
               /\ DOMAIN last.v = {"jsonrpc", "id", "result"}
               /\ last.v["result"] = Obj([ok |-> Bool(TRUE)])
          [] RefStep(p) \in {2, 5} -> IsErrorFrame(last, -32603)
          [] RefStep(p) = 3 ->
               /\ DOMAIN last.v = {"jsonrpc", "id", "error"}
               /\ last.v["error"] = Stringify(normalizeRemoteError(p.v["error"]))
          [] RefStep(p) = 4 ->
               /\ DOMAIN last.v = {"jsonrpc", "id", "error"}
               /\ last.v["error"] = Stringify(normalizeRemoteError(p))
          [] OTHER ->
               /\ DOMAIN last.v = {"jsonrpc", "id", "result"}
               /\ last.v["result"] = p.v["result"]

\* C9: for every payload, whichever of method, id, error, result, message
\* and status it has, the lines the reconciler gives rise to are those of
\* the step of the six-step precedence the payload falls under.
C9_SixSteps == rcOut # <<>> => RefMatches(rcArgs.resp, rcOut)

\* A payload with an error, a result, a message and a status was reconciled
\* into an error response.
C9_Witness ==
  /\ rcOut # <<>>
  /\ Has(rcArgs.resp, "error") /\ Has(rcArgs.resp, "result")
  /\ Has(rcArgs.resp, "message") /\ Has(rcArgs.resp, "status")
  /\ RefStep(rcArgs.resp) = 3
  /\ "error" \in DOMAIN rcOut[1].v

\* The call of pipe i timed out or failed at the network level.
CallFailed(i) == Settled(i) /\ pipes[i].outcome.kind \in {"aborted", "failed"}

\* Pipe i has written one line, an error response with code -32098 and the
\* id of its request.
WroteNetworkError(i) ==
  /\ Len(FramesBy(i)) = 1
  /\ IsErrorFrame(FramesBy(i)[1], -32098)
  /\ FramesBy(i)[1].v["id"] = RequestId(pipes[i].msg)

\* The call of the i-th line is pending.
Pending(i) == IF i \in 1..Len(pipes) THEN pipes[i].pc = "await" ELSE FALSE

\* C10 as stated: every forwarded request whose call timed out or failed has
\* written the error response with code -32098 and its id.
C10_AnyRequest ==
  \A i \in 1..Len(pipes) : CallFailed(i) => WroteNetworkError(i)

\* C10 amended: every forwarded request other than initialize whose call
\* timed out or failed has written that error response, in the step in which
\* the failure was delivered; and while the process runs no call stays
\* pending for ever, its timer being one of the things that end it.
C10_OtherRequests ==
  /\ [](\A i \in 1..Len(pipes) :
          (CallFailed(i) /\ MethodOf(i) # Str("initialize")) => WroteNetworkError(i))
  /\ \A i \in 1..MaxLines : Pending(i) ~> (~alive \/ ~Pending(i))

\* A request other than initialize timed out and has its error response.
C10_Witness ==
  \E i \in 1..Len(pipes) :
    /\ MethodOf(i) # Str("initialize")
    /\ Settled(i) /\ pipes[i].outcome.kind = "aborted"
    /\ WroteNetworkError(i)

\* The call of an initialize request came to a payload with an error and
\* without a result.
InitializeFailed(i) ==
  /\ Settled(i)
  /\ MethodOf(i) = Str("initialize")
  /\ Truthy(Get(RemoteOf(i), "error"))
  /\ ~Truthy(Get(RemoteOf(i), "result"))

\* The success response the bridge makes up itself, for a request with this id.
IsLocalSuccess(f, id) ==
  /\ IsResponseFrame(f)
  /\ DOMAIN f.v = {"jsonrpc", "id", "result"}
  /\ f.v["id"] = id
  /\ f.v["result"] =
       Obj([protocolVersion |-> Str("2024-11-05"),
            serverInfo |-> Obj([name |-> Str("dify-mcp-bridge"), version |-> Str("1.0.0")]),
            capabilities |-> EmptyObj,
            tools |-> Arr(<<>>)])

IsWarning(f) ==
  /\ IsNotificationFrame(f)
  /\ f.v["method"] = Str("notifications/message")
  /\ Get(f.v["params"], "level") = Str("warning")

\* C11: when the call of an initialize request comes to an error (a payload
\* with an error and no result: a remote error object, a non-2xx status, an
\* undecodable body, a failed or aborted call), the request has written the
\* local success response with its id and exactly one notification, a
\* warning, and the initialized flag is true.
C11_LocalInitialize ==
  \A i \in 1..Len(pipes) :
    InitializeFailed(i) =>
      /\ Len(ResponsesBy(i)) = 1
      /\ IsLocalSuccess(ResponsesBy(i)[1], IdOfRequest(i))
      /\ Len(NotificationsBy(i)) = 1
      /\ IsWarning(NotificationsBy(i)[1])
      /\ Len(FramesBy(i)) = 2
      /\ initialized

\* An initialize request met a 502, and the flag is set.
C11_Witness ==
  \E i \in 1..Len(pipes) :
    /\ InitializeFailed(i)
    /\ pipes[i].outcome.kind = "response" /\ pipes[i].outcome.status = 502
    /\ Len(FramesBy(i)) = 2
    /\ initialized

\* The step completes an initialize request.
CompletesInitialize ==
  \E i \in 1..Len(pipes) :
    /\ pipes[i].pc = "await"
    /\ pipes'[i].pc = "returned"
    /\ MethodOf(i) = Str("initialize")

\* C12: the initialized flag is false at the start, never goes from true to
\* false, changes only in a step that completes an initialize request, and
\* so is true exactly when some initialize request has completed.
C12_FlagMonotonic ==
  /\ ~initialized
  /\ [][initialized => initialized']_vars
  /\ [][initialized' # initialized => CompletesInitialize]_vars
  /\ [](initialized <=>
          \E i \in 1..Len(pipes) : Settled(i) /\ MethodOf(i) = Str("initialize"))

\* The flag is set, one initialize request having completed, and a request
\* of another method has completed too.
C12_Witness ==
  /\ initialized
  /\ Len(pipes) = 2
  /\ Settled(1) /\ MethodOf(1) = Str("initialize")
  /\ Settled(2) /\ MethodOf(2) = Str("tools/list")

(***************************************************************************)
(* The sanitizer on its own: repairToolsInInitializeResult(result), and    *)
(* once more on what it returned.                                          *)
(***************************************************************************)
\* The longest list of tools passed.
MaxTools == 2

\* A name of 66 characters, the 64th of them unsafe.
LongName == "aaaaaaaaaaaaaaaaaaaaaaaaaaaaaaaaaaaaaaaaaaaaaaaaaaaaaaaaaaaaaaa!bc"

\* The entries a list of tools is made of.
Descriptors ==
  << Num(5), Null, Str("x"), Arr(<<Num(1)>>),
     Obj([name |-> Str("My Tool!!"), description |-> Str("d")]),
     Obj([name |-> Str("")]),
     Obj([description |-> Str("d")]),
     Obj([name |-> Null]),
     Obj([name |-> Num(7)]),
     Obj([name |-> Str(LongName), inputSchema |-> EmptyObj]),
     Obj([name |-> Str("ok-Name_1")]) >>

\* The result whose list of tools has the entries picked by d.
ResultWithTools(d) ==
  Obj([tools |-> Arr([i \in 1..Len(d) |-> Descriptors[d[i]]]), x |-> Num(1)])

\* The results without a list of tools, and those that are no object.
ResultsWithoutTools ==
  << Obj([x |-> Num(1)]), Obj([tools |-> Str("none")]),
     Obj([tools |-> Obj([name |-> Str("a b")])]), Null, Str("r"), Arr(<<>>) >>

InitSanitize ==
  /\ ProcessStarted /\ ReconcilerIdle /\ InvokerIdle
  /\ \/ \E n \in 0..MaxTools : \E d \in [1..n -> 1..Len(Descriptors)] :
          szIn = ResultWithTools(d)
     \/ \E k \in 1..Len(ResultsWithoutTools) : szIn = ResultsWithoutTools[k]
  /\ szOut = <<>>
  /\ szTwice = <<>>

Sanitize ==
  /\ szOut = <<>>
  /\ szOut' = repairToolsInInitializeResult(szIn)
  /\ UNCHANGED <<procVars, rcVars, dcVars, szIn, szTwice>>

SanitizeAgain ==
  /\ szOut # <<>>
  /\ szTwice = <<>>
  /\ szTwice' = repairToolsInInitializeResult(szOut)
  /\ UNCHANGED <<procVars, rcVars, dcVars, szIn, szOut>>

NextSanitize == Sanitize \/ SanitizeAgain

SpecSanitize == InitSanitize /\ [][NextSanitize]_vars

\* The first k characters of s, each unsafe one replaced by "_".
RECURSIVE RefCleanTo(_, _)
RefCleanTo(s, k) ==
  IF k = 0 THEN ""
  ELSE RefCleanTo(s, k - 1) \o (IF CharAt(s, k) \in NameChars THEN CharAt(s, k) ELSE "_")

\* The name the i-th entry t is to get.
RefName(t, i) ==
  LET orig == IF Has(t, "name") /\ ~Nullish(t.v["name"]) THEN StringOf(t.v["name"]) ELSE ""
      cleaned == RefCleanTo(orig, IF Len(orig) > 64 THEN 64 ELSE Len(orig))
  IN IF cleaned = "" THEN "tool_" \o IntToString(i) ELSE cleaned

\* q is what the i-th entry t is to become.
RefEntry(t, q, i) ==
  IF t.t # "obj" THEN q = t
  ELSE /\ q.t = "obj"
       /\ DOMAIN q.v = DOMAIN t.v \cup {"name"}
       /\ \A k \in DOMAIN t.v \ {"name"} : q.v[k] = t.v[k]
       /\ q.v["name"] = Str(RefName(t, i))

\* q is what the result p is to become.
RefSanitized(p, q) ==
  IF p.t = "obj" /\ Has(p, "tools") /\ p.v["tools"].t = "arr"
  THEN /\ q.t = "obj"
       /\ DOMAIN q.v = DOMAIN p.v
       /\ \A k \in DOMAIN p.v \ {"tools"} : q.v[k] = p.v[k]
       /\ q.v["tools"].t = "arr"
       /\ Len(q.v["tools"].v) = Len(p.v["tools"].v)
       /\ \A i \in 1..Len(p.v["tools"].v) :
            RefEntry(p.v["tools"].v[i], q.v["tools"].v[i], i)
  ELSE q = p

\* C13: the sanitizer returns a result without a list of tools unchanged,
\* and one with a list of tools with nothing changed but the entries of the
\* list: same length, same order, every entry that is not a mapping
\* unchanged, every mapping unchanged but for its name, which is the
\* original with each unsafe character replaced by "_", cut to 64
\* characters, or tool_<index> when that is empty.
C13_Sanitized == szOut # <<>> => RefSanitized(szIn, szOut)

\* C14: sanitizing what the sanitizer returned returns the same again.
C14_Idempotent == szTwice # <<>> => szTwice = szOut

\* A list with an over-long name, then an empty one, sanitized twice: the
\* names are the 64-character cut and tool_2.
C14_Witness ==
  /\ szTwice # <<>>
  /\ Has(szIn, "tools") /\ IsArray(szIn.v["tools"]) /\ Len(szIn.v["tools"].v) = 2
  /\ Get(szIn.v["tools"].v[1], "name") = Str(LongName)
  /\ Get(szIn.v["tools"].v[2], "name") = Str("")
  /\ Len(szOut.v["tools"].v[1].v["name"].v) = 64
  /\ szOut.v["tools"].v[2].v["name"] = Str("tool_2")
  /\ szOut # szIn

\* The line is a message with a method that is a non-empty string.
HasMethod(line) ==
  /\ ~Dropped(line)
  /\ LET m == Get(Decoded[line].val, "method") IN m.t = "str" /\ m.v # ""

\* The lines that are such messages, and what a reader decodes from the
\* text of each line.
WithMethod == {l \in Lines : HasMethod(l)}

TextOf == [l \in Lines |-> Stringify(Decoded[l].val)]

\* C15: a message with a non-empty string method has exactly one POST, its
\* own text, from its arrival on and whatever the call comes to; any other
\* line has none; and no step adds a POST but the arrival of such a message.
C15_OneCall ==
  /\ [](\A i \in 1..Len(pipes) :
          IF pipes[i].line \in WithMethod
          THEN /\ Len(PostsBy(i)) = 1
               /\ PostsBy(i)[1].body = TextOf[pipes[i].line]
          ELSE PostsBy(i) = <<>>)
  /\ [](Len(posts) = Cardinality({i \in 1..Len(pipes) : pipes[i].line \in WithMethod}))
  /\ [][posts' # posts =>
          /\ Len(pipes') = Len(pipes) + 1
          /\ pipes'[Len(pipes')].line \in WithMethod
          /\ Len(posts') = Len(posts) + 1]_vars

\* One call timed out, another was answered by a status 502, and each has
\* its one POST.
C15_Witness ==
  \E i, j \in 1..Len(pipes) :
    /\ Settled(i) /\ pipes[i].outcome.kind = "aborted" /\ Len(PostsBy(i)) = 1
    /\ Settled(j) /\ pipes[j].outcome.kind = "response" /\ pipes[j].outcome.status = 502
    /\ Len(PostsBy(j)) = 1
    /\ Len(posts) = 2

\* The line is valid JSON for a value that is not an object.
NotAnObject(line) == ~Dropped(line) /\ Decoded[line].val.t # "obj"

\* C16: a line that is valid JSON but not an object is discarded like an
\* invalid one: its handler returns, nothing is written for it and no POST
\* is made for it.
C16_Discarded ==
  \A i \in 1..Len(pipes) :
    NotAnObject(pipes[i].line) =>
      pipes[i].pc = "returned" /\ FramesBy(i) = <<>> /\ PostsBy(i) = <<>>

(***************************************************************************)
(* The invoker on its own: forwardToRemote for a response of the remote    *)
(* with a declared content type, a status and a body.                      *)
(***************************************************************************)
\* The content-type headers of the responses; Null where there is none.
ContentTypes ==
  << Str("application/json"), Str("text/event-stream"),
     Str("Text/Event-Stream; charset=utf-8"), Null >>

\* The bodies: plain JSON, a stream of events, a stream whose data is JSON
\* text encoded as a JSON string, a stream without data, a stream with data
\* that is not JSON, and text that is neither.
Bodies ==
  << "{\"id\":1,\"result\":{\"x\":1}}",
     "event: message\ndata: {\"id\":1,\"result\":{\"x\":1}}\n\n",
     "data: \"{\\\"id\\\":1,\\\"result\\\":{}}\"\n\n",
     "event: ping\n\n",
     "data: {oops\n\n",
     "<html>" >>

Statuses == <<200, 502>>

\* The ids of the requests the responses answer.
ExpectIds == << Num(1), Str("a"), Null >>

InitDecode ==
  /\ ProcessStarted /\ ReconcilerIdle /\ SanitizerIdle
  /\ \E c \in 1..Len(ContentTypes), b \in 1..Len(Bodies),
        s \in 1..Len(Statuses), e \in 1..Len(ExpectIds) :
       dcIn = [o |-> HttpResponse(Statuses[s], ContentTypes[c], Bodies[b]),
               expectId |-> ExpectIds[e]]
  /\ dcOut = <<>>

Decode ==
  /\ dcOut = <<>>
  /\ dcOut' = forwardToRemote(dcIn.o, dcIn.expectId)
  /\ UNCHANGED <<procVars, rcVars, szVars, dcIn>>

SpecDecode == InitDecode /\ [][Decode]_vars

\* The body of a 2xx response was decoded.
BodyDecoded == dcOut # <<>> /\ dcIn.o.status = 200

\* The response declares a stream of events.
DeclaredStream ==
  dcIn.o.contentType.t = "str" /\ Includes(ToLowerCase(dcIn.o.contentType.v), "text/event-stream")

\* r is the parse error for the body.
IsParseError(r) ==
  /\ r.t = "obj" /\ DOMAIN r.v = {"jsonrpc", "id", "error"}
  /\ r.v["id"] = dcIn.expectId
  /\ r.v["error"].t = "obj" /\ DOMAIN r.v["error"].v = {"code", "message", "data"}
  /\ r.v["error"].v["code"] = Num(-32700)
  /\ r.v["error"].v["data"] = Str(dcIn.o.text)

\* C17: the body is decoded by the path of its declared type and, where
\* that fails, by the other path; the parse error -32700 with the body as
\* its data is returned only where both fail.
C17_BothWays ==
  BodyDecoded =>
    LET json == JSONparse(dcIn.o.text)
        stream == parseSseLike(dcIn.o.text)
    IN IF DeclaredStream
       THEN IF Truthy(stream) THEN dcOut = stream
            ELSE IF json.ok THEN dcOut = json.val
            ELSE IsParseError(dcOut)
       ELSE IF json.ok THEN dcOut = json.val
            ELSE IF Truthy(stream) THEN dcOut = stream
            ELSE IsParseError(dcOut)

\* The data of the stream is a JSON string whose text is JSON again.
DoublyEncoded ==
  LET first == JSONparse(SseLastData(dcIn.o.text))
  IN first.ok /\ first.val.t = "str" /\ JSONparse(first.val.v).ok

\* C18: the doubly-encoded data of a stream is decoded twice: the object
\* encoded reaches the reconciler, and the response it gets is a success.
C18_DecodedTwice ==
  (BodyDecoded /\ DoublyEncoded) =>
    /\ dcOut = JSONparse(JSONparse(SseLastData(dcIn.o.text)).val.v).val
    /\ LET frames == ReconcileAndSend(dcOut, dcIn.expectId)
       IN "result" \in DOMAIN frames[Len(frames)].v

\* The error object of the frame, Undefined where it has none.
ErrorOf(f) == Get(f, "error")

\* The remote answered pipe i with an error that has no code and no status.
ErrorWithoutCode(i) ==
  /\ Settled(i) /\ MethodOf(i) # Str("initialize")
  /\ LET err == Get(RemoteOf(i), "error")
     IN err.t = "obj" /\ ~Has(err, "code") /\ ~Has(err, "status")

\* C19: every error object written has a code that is an integer and a
\* message that is a string, whatever the remote sent; the code is -32000
\* where the remote's error has no code and no status.
C19_IntegerCode ==
  /\ \A k \in 1..Len(output) :
       LET err == ErrorOf(output[k].frame)
       IN err # Undefined =>
            /\ err.t = "obj"
            /\ Get(err, "code").t = "num"
            /\ Get(err, "message").t = "str"
  /\ \A i \in 1..Len(pipes) :
       ErrorWithoutCode(i) =>
         \E k \in 1..Len(FramesBy(i)) : IsErrorFrame(FramesBy(i)[k], -32000)

\* The frames of pipe i among the lines out.
FramesIn(out, i) ==
  LET mine == SelectSeq(out, LAMBDA w : w.by = i)
  IN [k \in 1..Len(mine) |-> mine[k].frame]

\* Frames with one response among them, and that one a success.
AnsweredWithSuccess(frames) ==
  /\ \E k \in 1..Len(frames) : IsResponseFrame(frames[k])
  /\ \A k \in 1..Len(frames) :
       IsResponseFrame(frames[k]) =>
         "result" \in DOMAIN frames[k].v /\ "error" \notin DOMAIN frames[k].v

\* C20: the step that sets the initialized flag is the completion of an
\* initialize request, and the response written for that request is a
\* success, never an error.
C20_FlagMeansSuccess ==
  [][(~initialized /\ initialized') =>
       \E i \in 1..Len(pipes) :
         /\ pipes[i].pc = "await" /\ pipes'[i].pc = "returned"
         /\ MethodOf(i) = Str("initialize")
         /\ AnsweredWithSuccess(FramesIn(output', i))]_vars

====
